---- MODULE Spec2Model ----
(***************************************************************************)
(* Model of the generic-upper-bound crate.                                 *)
(*                                                                         *)
(* build.rs writes the macro for_each_size!, whose expansion is a fixed    *)
(* list of binary literals (the candidate table) for the target pointer    *)
(* width.  src/implementation.rs expands the list twice: Impl::ACTUAL      *)
(* returns the first candidate n with n >= DESIRED_GENERIC, and Impl::EVAL *)
(* evaluates const_value::<A::Eval<n>>() for the first candidate n with    *)
(* n == ACTUAL.  src/lib.rs exposes both as get_upper_bound and            *)
(* eval_with_upper_bound.                                                  *)
(***************************************************************************)
EXTENDS Integers, Sequences, FiniteSets

\* Largest pointer width that is explored.
MaxWidth == 6

VARIABLES
    ptr_width,   \* build.rs: ptr_width, the target's pointer width in bits
    table,       \* the candidates of for_each_size!, <<>> before build.rs ran
    desired,     \* A::DESIRED_GENERIC of the implementor under evaluation
    fails,       \* the bounds n for which A::Eval<n>::VALUE panics
    actual,      \* Impl::<A>::ACTUAL once evaluated: <<U>>, else <<>>
    evaluated,   \* the branches A::Eval<n> realised by Impl::<A>::EVAL, in order
    output,      \* Impl::<A>::EVAL once evaluated: <<value>>, else <<>>
    failure      \* "none", or the place where const evaluation aborted

vars == <<ptr_width, table, desired, fails, actual, evaluated, output, failure>>

RECURSIVE Pow2(_)
Pow2(n) == IF n = 0 THEN 1 ELSE 2 * Pow2(n - 1)

\* usize::MAX for a pointer width of w bits.
UsizeMax(w) == Pow2(w) - 1

SeqRange(s) == {s[k] : k \in 1..Len(s)}

(***************************************************************************)
(* build.rs: the literals are written as text ("0b1", part, zeros) and     *)
(* read back by the compiler; a literal is modelled as its digit sequence  *)
(* and ParseBin is the value the compiler gives it.                        *)
(***************************************************************************)
RECURSIVE ParseBin(_)
ParseBin(bits) ==
    IF bits = <<>> THEN 0
    ELSE 2 * ParseBin(SubSeq(bits, 1, Len(bits) - 1)) + bits[Len(bits)]

\* write!(f, "{ln}0b1"); write!(f, "{part}"); for _ in 1..i { write!(f, "0") }
SizeLiteral(part, i) == <<1, part>> \o [k \in 1..(i - 1) |-> 0]

\* "0b" chained with "1".repeat(ptr_width)
UsizeMaxLiteralShort(w) == [k \in 1..(w - 1) |-> 1]
UsizeMaxLiteral(w) == [k \in 1..w |-> 1]

\* for part in 0..=1u8
PartsReversed == <<1, 0>>
Parts == <<0, 1>>

\* Only the power of two of each bit position is written.
PartsOfPowerOnly(i) == <<ParseBin(SizeLiteral(Parts[1], i))>>
\* the two literals written for bit position i
PartsOf(i) == [p \in 1..Len(Parts) |-> ParseBin(SizeLiteral(Parts[p], i))]

\* The range starts at 0 instead of 1.
BitPositionsFromZero(w) == 0..(w - 1)
\* the range of: for i in 1..ptr_width
BitPositions(w) == 1..(w - 1)

\* for i in ... { for part in 0..=1u8 { ... } }, over the positions left in S
RECURSIVE SizeLoop(_)
SizeLoop(S) ==
    IF S = {} THEN <<>>
    ELSE LET i == CHOOSE x \in S : \A y \in S : x <= y
         IN  PartsOf(i) \o SizeLoop(S \ {i})

\* The maximum is written before the loop instead of after it.
for_each_size_max_first(w) ==
    <<0, 1>> \o <<ParseBin(UsizeMaxLiteral(w))>> \o SizeLoop(BitPositions(w))
\* write_for_each_size_macro: the candidates of for_each_size!, in order
for_each_size(w) ==
    <<0, 1>> \o SizeLoop(BitPositions(w)) \o <<ParseBin(UsizeMaxLiteral(w))>>

(***************************************************************************)
(* src/implementation.rs                                                   *)
(***************************************************************************)
\* the test of check_size! in ACTUAL: if $n >= desired
check_size_actual_gt(n, d) == n > d
check_size_actual_ne(n, d) == n /= d
check_size_actual(n, d) == n >= d

\* Impl::ACTUAL: the expansion of for_each_size! { check_size } from entry i
\* on; <<n>> is break 'ret n, <<>> is the call of unreachable()
RECURSIVE ScanActual(_, _, _)
ScanActual(tbl, d, i) ==
    IF i > Len(tbl) THEN <<>>
    ELSE IF check_size_actual(tbl[i], d) THEN <<tbl[i]>>
    ELSE ScanActual(tbl, d, i + 1)

ACTUAL(tbl, d) == ScanActual(tbl, d, 1)

\* the test of check_size! in EVAL: if $n == actual
check_size_eval(n, act) == n = act

\* Every matching entry is realised: the scan goes on after a match.
RECURSIVE ScanEvalNoBreak(_, _, _)
ScanEvalNoBreak(tbl, act, i) ==
    IF i > Len(tbl) THEN <<>>
    ELSE IF check_size_eval(tbl[i], act)
         THEN <<tbl[i]>> \o ScanEvalNoBreak(tbl, act, i + 1)
         ELSE ScanEvalNoBreak(tbl, act, i + 1)

\* Every candidate's branch is realised, whether it matches or not.
ScanEvalEager(tbl, act, i) == SubSeq(tbl, i, Len(tbl))

\* Impl::EVAL: the branches n for which const_value::<A::Eval<n>>() is
\* executed by the expansion from entry i on; the scan ends at the first
\* match (break 'ret), <<>> is the call of unreachable()
RECURSIVE ScanEval(_, _, _)
ScanEval(tbl, act, i) ==
    IF i > Len(tbl) THEN <<>>
    ELSE IF check_size_eval(tbl[i], act) THEN <<tbl[i]>>
    ELSE ScanEval(tbl, act, i + 1)

\* const_value::<A::Eval<n>>(): the families explored map a bound to itself
\* (for instance the length of [0; UPPER])
const_value(n) == n

\* The implementors explored: Eval panics for no bound, for one candidate,
\* for all candidates but one, or for all candidates.
FailFamilies(w) ==
    LET cand == SeqRange(for_each_size(w))
    IN  {{}, cand} \cup {{p} : p \in cand} \cup {cand \ {p} : p \in cand}

Init ==
    /\ ptr_width \in 1..MaxWidth
    /\ table = <<>>
    /\ desired \in 0..UsizeMax(ptr_width)
    /\ fails \in FailFamilies(ptr_width)
    /\ actual = <<>>
    /\ evaluated = <<>>
    /\ output = <<>>
    /\ failure = "none"

\* build.rs main: write for_each_size.rs for the target's pointer width
Build ==
    /\ table = <<>>
    /\ table' = for_each_size(ptr_width)
    /\ UNCHANGED <<ptr_width, desired, fails, actual, evaluated, output, failure>>

\* get_upper_bound::<A>(): evaluates Impl::<A>::ACTUAL
GetUpperBound ==
    /\ table /= <<>>
    /\ failure = "none"
    /\ actual = <<>>
    /\ LET u == ACTUAL(table, desired)
       IN  /\ actual' = u
           /\ failure' = IF u = <<>> THEN "ACTUAL:unreachable" ELSE failure
    /\ UNCHANGED <<ptr_width, table, desired, fails, evaluated, output>>

\* eval_with_upper_bound::<A>(): evaluates Impl::<A>::EVAL, which reads
\* Self::ACTUAL and then expands the table a second time
EvalWithUpperBound ==
    /\ table /= <<>>
    /\ failure = "none"
    /\ evaluated = <<>>
    /\ LET u == ACTUAL(table, desired)
       IN  /\ actual' = u
           /\ IF u = <<>>
              THEN /\ failure' = "ACTUAL:unreachable"
                   /\ UNCHANGED <<evaluated, output>>
              ELSE LET ev == ScanEval(table, u[1], 1)
                   IN  /\ evaluated' = ev
                       /\ IF ev = <<>>
                          THEN /\ failure' = "EVAL:unreachable"
                               /\ UNCHANGED output
                          ELSE IF \E k \in 1..Len(ev) : ev[k] \in fails
                          THEN /\ failure' = "Eval:panic"
                               /\ UNCHANGED output
                          ELSE /\ output' = <<const_value(ev[1])>>
                               /\ UNCHANGED failure
    /\ UNCHANGED <<ptr_width, table, desired, fails>>

Next == Build \/ GetUpperBound \/ EvalWithUpperBound

Spec == Init /\ [][Next]_vars

(***************************************************************************)
(* Properties                                                              *)
(***************************************************************************)
Built == table /= <<>>

StrictlyAscending(s) == \A k \in 1..(Len(s) - 1) : s[k] < s[k + 1]
NonDecreasing(s) == \A k \in 1..(Len(s) - 1) : s[k] <= s[k + 1]

\* C1: for every width and every desired value, the scan of ACTUAL hits a
\* candidate U with U >= desired and never reaches unreachable().
C1_Totality ==
    /\ failure /= "ACTUAL:unreachable"
    /\ actual /= <<>> => actual[1] >= desired

C1_Witness ==
    /\ actual /= <<>>
    /\ ptr_width >= 3
    /\ desired = UsizeMax(ptr_width)
    /\ actual[1] = desired

\* C2: for desired > 0 the bound U satisfies desired <= U < 2 * desired,
\* the product taken in unbounded integers.
C2_TightBound ==
    (actual /= <<>> /\ desired > 0) =>
        (desired <= actual[1] /\ actual[1] < 2 * desired)

C2_Witness ==
    /\ actual /= <<>>
    /\ actual[1] > desired
    /\ 2 * desired > UsizeMax(ptr_width)

\* C3: every parameter UPPER with which Eval is evaluated satisfies
\* DESIRED_GENERIC <= UPPER < 2 * DESIRED_GENERIC, whatever DESIRED_GENERIC is.
C3_DocumentedBound ==
    \A k \in 1..Len(evaluated) :
        desired <= evaluated[k] /\ evaluated[k] < 2 * desired

\* C4: the scan of EVAL never reaches unreachable(); it realises exactly one
\* branch, the one of the bound that ACTUAL yields for the same desired value,
\* and the dispatcher returns that branch's value.
C4_DispatchConsistency ==
    /\ failure /= "EVAL:unreachable"
    /\ evaluated /= <<>> =>
        /\ evaluated = ACTUAL(table, desired)
        /\ failure = "none" => output = <<const_value(evaluated[1])>>

C4_Witness ==
    /\ Len(evaluated) = 1
    /\ evaluated[1] > desired
    /\ output = <<const_value(evaluated[1])>>
    /\ fails = {}

\* C5: dispatch fails exactly when the selected branch fails; when every
\* other branch would fail, it still returns the selected branch's value.
C5_LosersNotEvaluated ==
    (evaluated /= <<>> /\ actual /= <<>>) =>
        IF actual[1] \in fails
        THEN failure = "Eval:panic" /\ output = <<>>
        ELSE failure = "none" /\ output = <<const_value(actual[1])>>

C5_Witness ==
    /\ evaluated /= <<>>
    /\ actual /= <<>>
    /\ fails = SeqRange(table) \ {actual[1]}
    /\ Cardinality(fails) >= 2
    /\ output = <<const_value(actual[1])>>

\* C6 as stated: for every width the table is strictly ascending, starts
\* with 0 and 1 and ends with the maximum value of the width.
C6_StrictlyAscendingAnyWidth ==
    Built =>
        /\ StrictlyAscending(table)
        /\ table[1] = 0
        /\ table[2] = 1
        /\ table[Len(table)] = UsizeMax(ptr_width)

\* C6 as amended: for every width the table is non-decreasing, starts with 0
\* and 1 and ends with the maximum value of the width; it is strictly
\* ascending for every width of at least 3 bits.
C6_TableInvariant ==
    Built =>
        /\ NonDecreasing(table)
        /\ ptr_width >= 3 => StrictlyAscending(table)
        /\ table[1] = 0
        /\ table[2] = 1
        /\ table[Len(table)] = UsizeMax(ptr_width)

C6_Witness ==
    /\ Built
    /\ ptr_width >= 3
    /\ Len(table) = 2 * ptr_width + 1

\* C7: the bound of a desired value is at most the bound of every larger
\* desired value of the same width.
C7_Monotonic ==
    actual /= <<>> =>
        \A d2 \in desired..UsizeMax(ptr_width) :
            LET u2 == ACTUAL(table, d2)
            IN  u2 /= <<>> => actual[1] <= u2[1]

C7_Witness ==
    /\ actual /= <<>>
    /\ actual[1] > desired
    /\ ACTUAL(table, desired + 1) = actual
    /\ desired > 0
    /\ ACTUAL(table, desired - 1) /= actual

\* C8: the bound is the smallest table entry that is >= desired; a desired
\* value that is itself a table entry is returned unchanged.
C8_Minimal ==
    actual /= <<>> =>
        /\ actual[1] \in SeqRange(table)
        /\ ~ \E k \in 1..Len(table) : desired <= table[k] /\ table[k] < actual[1]
        /\ desired \in SeqRange(table) => actual[1] = desired

C8_Witness ==
    /\ actual = <<desired>>
    /\ desired \in SeqRange(table) \ {0, 1}
    /\ desired < UsizeMax(ptr_width)

\* C9: the table of a width without its final entry is a prefix of the table
\* of every larger width; the tables differ at the position of the smaller
\* width's maximum, and the larger table's further entries all lie above
\* 3 * 2^(W-2) and above 2^(W-1).
C9_WidthPrefix ==
    Built =>
        \A w2 \in (ptr_width + 1)..(MaxWidth + 1) :
            LET t2 == for_each_size(w2)
                n == Len(table) - 1
            IN  /\ Len(t2) > n
                /\ SubSeq(t2, 1, n) = SubSeq(table, 1, n)
                /\ t2[n + 1] /= table[n + 1]
                /\ \A k \in (n + 1)..Len(t2) :
                       /\ 4 * t2[k] > 3 * Pow2(ptr_width)
                       /\ 2 * t2[k] > Pow2(ptr_width)

C9_Witness ==
    /\ Built
    /\ ptr_width >= 3
    /\ ptr_width < MaxWidth
    /\ Len(for_each_size(ptr_width + 1)) = Len(table) + 2

\* C10: for desired > 0 the bound U satisfies 2 * U < 3 * desired in
\* unbounded integers.
C10_ThreeHalvesBound ==
    (actual /= <<>> /\ desired > 0) => 2 * actual[1] < 3 * desired

C10_Witness ==
    /\ actual /= <<>>
    /\ desired > 2
    /\ 3 * desired - 2 * actual[1] = 3

====
